---- MODULE Spec2Model ----
(***************************************************************************)
(* Model of the image similarity search of flair-ai:                       *)
(*   src/image_sim_search.py  find_similar_images, upload_matches_to_      *)
(*                            supabase                                     *)
(*   src/api.py               the /api/fashion-finder handler              *)
(*                                                                         *)
(* Feature vectors are small integer vectors with integer norms, and a     *)
(* similarity score is an exact fixed-point number: the integer s stands   *)
(* for the real s / Unit.  Floating-point rounding is not modelled.        *)
(* Python positions are 0-based; sequences here are 1-based, and the       *)
(* 0-based value is written where the code exposes it (query_image_index,  *)
(* match_<i>.jpg).                                                         *)
(***************************************************************************)
EXTENDS Integers, Sequences, FiniteSets

\* ------------------------------------------------------------------ bounds

\* Largest number of files in the library directory.
MaxLib == 3

\* Largest number of query images in a request made to find_similar_images.
MaxQueries == 2

\* ------------------------------------------------------- program constants

\* np.argsort(similarities)[::-1][:5]
TopK == 5

\* np.argsort(avg_similarity_scores)[::-1][:3]
TopN == 3

\* api.py: MAX_IMAGES
MAX_IMAGES == 5

\* api.py line 23; line 28 creates the directory when the server starts.
SCRAPED_FOLDER == "pictures"

\* The directories that exist: "lib", and SCRAPED_FOLDER.  `library` is the
\* listing of whichever of them an invocation reads.
Directories == {"lib", SCRAPED_FOLDER}

valid_extensions == {".png", ".jpg", ".jpeg", ".gif"}

\* ------------------------------------------------------------- value model

\* Image contents of the model, and bytes that PIL cannot open (or base64 that
\* does not decode).
Images == {"jacket", "bag", "coat"}

Corrupt == "corrupt"

\* Image.open(...).convert("RGB") and extract_features succeed on img.
Decodable(img) == img \in Images

\* extract_features(img): the extractor is a deterministic black box; on the
\* images of the model it returns [1,0], [0,1] and [3,4].
extract_features(img) ==
    CASE img = "jacket" -> <<1, 0>>
      [] img = "bag" -> <<0, 1>>
      [] img = "coat" -> <<3, 4>>

RECURSIVE Factorial(_)
Factorial(n) == IF n <= 1 THEN 1 ELSE n * Factorial(n - 1)

\* The norms of the feature vectors are 1 and 5, so score * Unit is an
\* integer, and so is its mean over up to MaxQueries queries.
Unit == (5 * 5) * Factorial(MaxQueries)

Dot(a, b) == a[1] * b[1] + a[2] * b[2]

\* Integer square root of a perfect square.
Sqrt(n) == CHOOSE r \in 0..n : r * r = n

\* sklearn normalize(): a zero norm is replaced by 1, so a zero vector scores 0.
Norm(a) == LET n == Sqrt(Dot(a, a)) IN IF n = 0 THEN 1 ELSE n

\* sklearn.metrics.pairwise.cosine_similarity of two vectors, times Unit.
cosine_similarity(q, e) == (Dot(q, e) * Unit) \div (Norm(q) * Norm(e))

\* str.lower() on the extensions of the model.
Lower(ext) ==
    CASE ext = ".PNG" -> ".png"
      [] ext = ".JPG" -> ".jpg"
      [] OTHER -> ext

\* A file of the library directory: its extension and what Image.open and
\* extract_features make of its bytes.
Files ==
    { [ext |-> ".txt", img |-> "jacket"],
      [ext |-> ".jpg", img |-> Corrupt],
      [ext |-> ".jpg", img |-> "jacket"],
      [ext |-> ".PNG", img |-> "coat"] }

\* Query images: the base64 payloads, named by what they decode to.
QueryImages == {"jacket", "bag", Corrupt}

RECURSIVE SeqsUpTo(_, _)
SeqsUpTo(S, n) ==
    IF n = 0 THEN {<<>>}
    ELSE LET shorter == SeqsUpTo(S, n - 1)
         IN shorter \cup {Append(s, x) : s \in {t \in shorter : Len(t) = n - 1}, x \in S}

\* os.listdir results of the model: the directory's files in enumeration order.
Listings == SeqsUpTo(Files, MaxLib)

\* request_data of the model: absent keys read as their .get() defaults.
Requests ==
    [ images : SeqsUpTo(QueryImages, MaxQueries),
      library_directory : {"", "missing", "lib"},
      username : {"", "u"},
      board_name : {"", "b"} ]

\* -------------------------------------------------------------------- state

VARIABLES
    library,                    \* files of the directory "lib", in os.listdir order
    argsort_ties,               \* how this build's np.argsort orders equal keys
    request,                    \* request_data of the running invocation
    pc,                         \* position in find_similar_images
    query_features,
    pos,                        \* number of directory entries the indexing loop has taken
    library_features,
    library_paths,
    combined_similarity_scores,
    results,
    avg_similarity_scores,
    best_overall_matches,
    uploaded_urls,
    upload_log,                 \* what the storage service did on each upload attempt
    ret,                        \* what the invocation returned (or raised)
    caller,                     \* who invoked find_similar_images
    response,                   \* the HTTP response of the handler, once sent
    run,                        \* 1 in the first invocation, 2 in a repeated one
    prev_ret,                   \* what the first of two invocations returned
    blas_rounding,              \* how this build's BLAS rounds its two product routines
    listdir_calls,              \* number of os.listdir calls made so far
    branch                      \* the branch /api/find-similar built its payload on

vars ==
    << library, argsort_ties, request, pc, query_features, pos, library_features,
       library_paths, combined_similarity_scores, results, avg_similarity_scores,
       best_overall_matches, uploaded_urls, upload_log, ret, caller, response, run,
       prev_ret, blas_rounding, listdir_calls, branch >>

world == << library, argsort_ties, blas_rounding >>

index == << pos, library_features, library_paths >>

ranking == << combined_similarity_scores, results, avg_similarity_scores, best_overall_matches >>

publication == << uploaded_urls, upload_log >>

api == << caller, response, branch >>

history == << run, prev_ret, listdir_calls >>

Running == [running |-> TRUE]

NoResponse == [status |-> 0, body |-> [none |-> TRUE]]

NoRequest == [images |-> <<>>, library_directory |-> "", username |-> "", board_name |-> ""]

\* np.argsort's default kind is not stable.  "stable" is the insertion sort NumPy
\* runs on short arrays; "unstable" stands for a build (vectorised sort) that
\* leaves equal keys in another order.  A build is one or the other throughout.
TieOrders == {"stable", "unstable"}

\* cosine_similarity multiplies the query row by the whole library matrix at
\* line 83 and by one library row at line 114.  NumPy hands the two shapes to
\* different BLAS routines (vector-matrix and vector-vector), which add the
\* float32 terms in different orders: in a build they round alike ("same") or
\* not ("differ").
Roundings == {"same", "differ"}

Init ==
    /\ library \in Listings
    /\ argsort_ties \in TieOrders
    /\ blas_rounding \in Roundings
    /\ listdir_calls = 0
    /\ branch = "none"
    /\ request = NoRequest
    /\ pc = "idle"
    /\ query_features = <<>>
    /\ pos = 0
    /\ library_features = <<>>
    /\ library_paths = <<>>
    /\ combined_similarity_scores = <<>>
    /\ results = <<>>
    /\ avg_similarity_scores = <<>>
    /\ best_overall_matches = <<>>
    /\ uploaded_urls = <<>>
    /\ upload_log = <<>>
    /\ ret = Running
    /\ caller = "none"
    /\ response = NoResponse
    /\ run = 1
    /\ prev_ret = Running

\* ------------------------------------------------------------ pure helpers

Reverse(s) == [i \in 1..Len(s) |-> s[Len(s) + 1 - i]]

Take(s, n) == [i \in 1..(IF Len(s) < n THEN Len(s) ELSE n) |-> s[i]]

\* np.argsort(a): the positions of a in ascending order of value.  Equal values
\* keep their positions' order under "stable" and come reversed under "unstable".
argsort(a, ties) ==
    LET Before(j, i) ==
            \/ a[j] < a[i]
            \/ a[j] = a[i] /\ (IF ties = "stable" THEN j < i ELSE j > i)
        Rank(i) == 1 + Cardinality({j \in 1..Len(a) : Before(j, i)})
    IN [p \in 1..Len(a) |-> CHOOSE i \in 1..Len(a) : Rank(i) = p]

\* cosine_similarity([query_feature], library_features_array)[0]
Similarities(query_feature, features) ==
    [idx \in 1..Len(features) |-> cosine_similarity(query_feature, features[idx])]

\* np.argsort(similarities)[::-1][:5]
TopIndices(scores, n, ties) == Take(Reverse(argsort(scores, ties)), n)

\* lines 89-96: the match records of one query.
Matches(similarities, paths, ties) ==
    LET top_indices == TopIndices(similarities, TopK, ties)
    IN [m \in 1..Len(top_indices) |->
          [path |-> paths[top_indices[m]],
           similarity_score |-> similarities[top_indices[m]]]]

\* Mutant of AvgSimilarityScores: divides by the number of library entries.
AvgSimilarityScoresOverLibrary(combined, n) ==
    [idx \in 1..Len(combined) |-> combined[idx] \div Len(combined)]

\* line 100: combined_similarity_scores / len(query_features)
AvgSimilarityScores(combined, n) == [idx \in 1..Len(combined) |-> combined[idx] \div n]

\* f"{username}/{board_name}/{match_folder}/match_{i}.jpg" and its public URL.
PublicUrl(username, board_name, i) == <<username, board_name, "match", i>>

\* A match that was not uploaded has no "supabase_url" key.
NoUrl == <<>>

\* line 114: cosine_similarity([query_feature], [library_features[best_idx]])[0][0],
\* the product of one row by one row.  With a library of one row line 83 is the
\* same product.  Otherwise line 83 took the vector-matrix routine, and where
\* the two routines round differently a score that is no exact 0 or 1 comes out
\* one unit in the last place apart.
PairwiseSimilarity(query_feature, feature, n_rows, rounding) ==
    LET exact == cosine_similarity(query_feature, feature)
    IN IF rounding = "differ" /\ n_rows > 1 /\ exact \notin {0, Unit, -Unit}
       THEN exact - 1
       ELSE exact

\* lines 104-118: one best_match record; individual_scores[i + 1] is the value
\* under the key "query_<i>".
BestMatch(best_idx, avg, paths, features, queries, rounding) ==
    [path |-> paths[best_idx],
     average_similarity_score |-> avg[best_idx],
     individual_scores |->
        [i \in 1..Len(queries) |->
            PairwiseSimilarity(queries[i], features[best_idx], Len(features), rounding)],
     supabase_url |-> NoUrl]

\* lines 101-118
BestOverallMatches(avg, paths, features, queries, ties, rounding) ==
    LET top_3_indices == TopIndices(avg, TopN, ties)
    IN [m \in 1..Len(top_3_indices) |->
          BestMatch(top_3_indices[m], avg, paths, features, queries, rounding)]

\* ------------------------------------------------- find_similar_images steps

\* A caller passes request_data to find_similar_images.
Invoke(req) ==
    /\ pc = "idle"
    /\ request' = req
    /\ caller' = "direct"
    /\ pc' = "entry"
    /\ UNCHANGED << world, response, branch, history, query_features, index, ranking,
                    publication, ret >>

\* Mutant of Entry: only the library directory is checked.
EntryLibraryOnly ==
    /\ pc = "entry"
    /\ IF request.library_directory = ""
       THEN /\ ret' = [error |-> "Missing required inputs"]
            /\ pc' = "done"
       ELSE /\ ret' = ret
            /\ pc' = "decode"
    /\ query_features' = <<>>
    /\ UNCHANGED << world, api, history, request, index, ranking, publication >>

\* lines 35-44: read the inputs, refuse a request without images or library.
Entry ==
    /\ pc = "entry"
    /\ IF request.images = <<>> \/ request.library_directory = ""
       THEN /\ ret' = [error |-> "Missing required inputs"]
            /\ pc' = "done"
       ELSE /\ ret' = ret
            /\ pc' = "decode"
    /\ query_features' = <<>>
    /\ UNCHANGED << world, api, history, request, index, ranking, publication >>

\* Mutant of DecodeQuery: a query image that fails is logged and replaced by a
\* zero vector.
DecodeQueryLenient ==
    /\ pc = "decode"
    /\ Len(query_features) < Len(request.images)
    /\ LET img_base64 == request.images[Len(query_features) + 1]
       IN query_features' =
             Append(query_features,
                    IF Decodable(img_base64) THEN extract_features(img_base64) ELSE <<0, 0>>)
    /\ pc' = IF Len(query_features') = Len(request.images) THEN "listdir" ELSE "decode"
    /\ UNCHANGED << world, api, history, request, index, ranking, publication, ret >>

\* lines 45-53: one iteration of the query loop; a failure returns at once.
DecodeQuery ==
    /\ pc = "decode"
    /\ Len(query_features) < Len(request.images)
    /\ LET img_base64 == request.images[Len(query_features) + 1]
       IN IF ~Decodable(img_base64)
          THEN /\ ret' = [error |-> "Failed to process input image"]
               /\ pc' = "done"
               /\ UNCHANGED query_features
          ELSE /\ query_features' = Append(query_features, extract_features(img_base64))
               /\ pc' = IF Len(query_features') = Len(request.images)
                        THEN "listdir" ELSE "decode"
               /\ UNCHANGED ret
    /\ UNCHANGED << world, api, history, request, index, ranking, publication >>

\* lines 56-60: os.listdir(library_dir); a directory that does not exist raises.
ListDir ==
    /\ pc = "listdir"
    /\ IF request.library_directory \in Directories
       THEN /\ pc' = IF library = <<>> THEN "check" ELSE "index"
            /\ ret' = ret
       ELSE /\ pc' = "done"
            /\ ret' = [exception |-> "FileNotFoundError"]
    /\ listdir_calls' = listdir_calls + 1
    /\ pos' = 0
    /\ library_features' = <<>>
    /\ library_paths' = <<>>
    /\ UNCHANGED << world, api, run, prev_ret, request, query_features, ranking, publication >>

\* Mutant of IndexFile: the failure of Image.open is not caught.
IndexFileAborting ==
    /\ pc = "index"
    /\ pos < Len(library)
    /\ LET file_path == pos + 1
           file == library[file_path]
       IN /\ IF Lower(file.ext) \in valid_extensions /\ Decodable(file.img)
             THEN /\ library_features' = Append(library_features, extract_features(file.img))
                  /\ library_paths' = Append(library_paths, file_path)
             ELSE UNCHANGED << library_features, library_paths >>
          /\ pos' = file_path
          /\ IF Lower(file.ext) \in valid_extensions /\ ~Decodable(file.img)
             THEN /\ pc' = "done"
                  /\ ret' = [exception |-> "UnidentifiedImageError"]
             ELSE /\ pc' = IF file_path = Len(library) THEN "check" ELSE "index"
                  /\ ret' = ret
    /\ UNCHANGED << world, api, history, request, query_features, ranking, publication >>

\* lines 60-71: one iteration of the library loop over the file at position
\* pos + 1; its path is modelled by that position.
IndexFile ==
    /\ pc = "index"
    /\ pos < Len(library)
    /\ LET file_path == pos + 1
           file == library[file_path]
       IN /\ IF Lower(file.ext) \in valid_extensions /\ Decodable(file.img)
             THEN /\ library_features' = Append(library_features, extract_features(file.img))
                  /\ library_paths' = Append(library_paths, file_path)
             ELSE UNCHANGED << library_features, library_paths >>
          /\ pos' = file_path
          /\ pc' = IF file_path = Len(library) THEN "check" ELSE "index"
    /\ UNCHANGED << world, api, history, request, query_features, ranking, publication, ret >>

\* Mutant of CheckLibrary: an empty index is not refused.
CheckLibraryUnchecked ==
    /\ pc = "check"
    /\ ret' = ret
    /\ pc' = "score"
    /\ results' = <<>>
    /\ combined_similarity_scores' = [idx \in 1..Len(library_features) |-> 0]
    /\ UNCHANGED << world, api, history, request, query_features, index,
                    avg_similarity_scores, best_overall_matches, publication >>

\* Mutant of CheckLibrary: the running sums live across invocations and are
\* zeroed only when the library size changes.
CheckLibraryKeepsScores ==
    /\ pc = "check"
    /\ IF library_features = <<>>
       THEN /\ ret' = [error |-> "No valid images found in library"]
            /\ pc' = "done"
       ELSE /\ ret' = ret
            /\ pc' = "score"
    /\ results' = <<>>
    /\ combined_similarity_scores' =
          IF Len(combined_similarity_scores) = Len(library_features)
          THEN combined_similarity_scores
          ELSE [idx \in 1..Len(library_features) |-> 0]
    /\ UNCHANGED << world, api, history, request, query_features, index,
                    avg_similarity_scores, best_overall_matches, publication >>

\* lines 73-80: an empty index is an error; otherwise start the ranking.
CheckLibrary ==
    /\ pc = "check"
    /\ IF library_features = <<>>
       THEN /\ ret' = [error |-> "No valid images found in library"]
            /\ pc' = "done"
       ELSE /\ ret' = ret
            /\ pc' = "score"
    /\ results' = <<>>
    /\ combined_similarity_scores' = [idx \in 1..Len(library_features) |-> 0]
    /\ UNCHANGED << world, api, history, request, query_features, index, avg_similarity_scores,
                    best_overall_matches, publication >>

\* Mutant of ScoreQuery: every record is computed from the first query image.
ScoreQueryFirstOnly ==
    /\ pc = "score"
    /\ Len(results) < Len(query_features)
    /\ LET i == Len(results)
           similarities == Similarities(query_features[1], library_features)
       IN /\ combined_similarity_scores' =
                [idx \in 1..Len(library_features) |->
                    combined_similarity_scores[idx] + similarities[idx]]
          /\ results' = Append(results,
                [query_image_index |-> i,
                 matches |-> Matches(similarities, library_paths, argsort_ties)])
    /\ pc' = IF Len(results') = Len(query_features) THEN "aggregate" ELSE "score"
    /\ UNCHANGED << world, api, history, request, query_features, index, avg_similarity_scores,
                    best_overall_matches, publication, ret >>

\* lines 82-97: one iteration of the per-query loop.
ScoreQuery ==
    /\ pc = "score"
    /\ Len(results) < Len(query_features)
    /\ LET i == Len(results)
           similarities == Similarities(query_features[i + 1], library_features)
       IN /\ combined_similarity_scores' =
                [idx \in 1..Len(library_features) |->
                    combined_similarity_scores[idx] + similarities[idx]]
          /\ results' = Append(results,
                [query_image_index |-> i,
                 matches |-> Matches(similarities, library_paths, argsort_ties)])
    /\ pc' = IF Len(results') = Len(query_features) THEN "aggregate" ELSE "score"
    /\ UNCHANGED << world, api, history, request, query_features, index, avg_similarity_scores,
                    best_overall_matches, publication, ret >>

\* Mutant of Aggregate: publishes when either name is given.
AggregateAlwaysPublish ==
    /\ pc = "aggregate"
    /\ avg_similarity_scores' =
          AvgSimilarityScores(combined_similarity_scores, Len(query_features))
    /\ best_overall_matches' =
          BestOverallMatches(avg_similarity_scores', library_paths, library_features,
                             query_features, argsort_ties, blas_rounding)
    /\ IF request.username # "" \/ request.board_name # ""
       THEN IF best_overall_matches' # <<>>
            THEN /\ pc' = "upload"
                 /\ ret' = ret
            ELSE /\ pc' = "done"
                 /\ ret' = [results |-> results,
                            best_overall_matches |-> best_overall_matches',
                            uploaded_matches |-> <<>>]
       ELSE /\ pc' = "done"
            /\ ret' = [results |-> results, best_overall_matches |-> best_overall_matches']
    /\ uploaded_urls' = <<>>
    /\ upload_log' = <<>>
    /\ UNCHANGED << world, api, history, request, query_features, index, combined_similarity_scores,
                    results >>

\* lines 99-129: average, pick the best overall, then publish or return.
Aggregate ==
    /\ pc = "aggregate"
    /\ avg_similarity_scores' =
          AvgSimilarityScores(combined_similarity_scores, Len(query_features))
    /\ best_overall_matches' =
          BestOverallMatches(avg_similarity_scores', library_paths, library_features,
                             query_features, argsort_ties, blas_rounding)
    /\ IF request.username # "" /\ request.board_name # ""
       THEN IF best_overall_matches' # <<>>
            THEN /\ pc' = "upload"
                 /\ ret' = ret
            ELSE /\ pc' = "done"
                 /\ ret' = [results |-> results,
                            best_overall_matches |-> best_overall_matches',
                            uploaded_matches |-> <<>>]
       ELSE /\ pc' = "done"
            /\ ret' = [results |-> results, best_overall_matches |-> best_overall_matches']
    /\ uploaded_urls' = <<>>
    /\ upload_log' = <<>>
    /\ UNCHANGED << world, api, history, request, query_features, index, combined_similarity_scores,
                    results >>

\* What one pass of the upload loop can meet: the upload succeeds; open() or
\* upload() raises; upload() answers without a path.
UploadOutcomes == {"ok", "raises", "no_path"}

\* Mutant of UploadMatch: the first failed upload ends the loop.
UploadMatchAborting(outcome) ==
    /\ pc = "upload"
    /\ Len(upload_log) < Len(best_overall_matches)
    /\ LET i == Len(upload_log)
           public_url == PublicUrl(request.username, request.board_name, i)
       IN /\ upload_log' = Append(upload_log, outcome)
          /\ IF outcome = "ok"
             THEN /\ uploaded_urls' = Append(uploaded_urls, public_url)
                  /\ best_overall_matches' =
                        [best_overall_matches EXCEPT ![i + 1].supabase_url = public_url]
             ELSE UNCHANGED << uploaded_urls, best_overall_matches >>
          /\ IF i + 1 = Len(best_overall_matches) \/ outcome # "ok"
             THEN /\ pc' = "done"
                  /\ ret' = [results |-> results,
                             best_overall_matches |-> best_overall_matches',
                             uploaded_matches |-> uploaded_urls']
             ELSE /\ pc' = "upload"
                  /\ ret' = ret
    /\ UNCHANGED << world, api, history, request, query_features, index,
                    combined_similarity_scores, results, avg_similarity_scores >>

\* lines 148-180 and 122-127: one iteration of the upload loop over match i
\* (0-based); after the last one find_similar_images returns.
UploadMatch(outcome) ==
    /\ pc = "upload"
    /\ Len(upload_log) < Len(best_overall_matches)
    /\ LET i == Len(upload_log)
           public_url == PublicUrl(request.username, request.board_name, i)
       IN /\ upload_log' = Append(upload_log, outcome)
          /\ IF outcome = "ok"
             THEN /\ uploaded_urls' = Append(uploaded_urls, public_url)
                  /\ best_overall_matches' =
                        [best_overall_matches EXCEPT ![i + 1].supabase_url = public_url]
             ELSE UNCHANGED << uploaded_urls, best_overall_matches >>
          /\ IF i + 1 = Len(best_overall_matches)
             THEN /\ pc' = "done"
                  /\ ret' = [results |-> results,
                             best_overall_matches |-> best_overall_matches',
                             uploaded_matches |-> uploaded_urls']
             ELSE /\ pc' = "upload"
                  /\ ret' = ret
    /\ UNCHANGED << world, api, history, request, query_features, index, combined_similarity_scores,
                    results, avg_similarity_scores >>

\* ------------------------------------------------ api.py: /api/fashion-finder

\* Base64 text that does not decode: save_base64_image fails on it too.
NotBase64 == "not_base64"

\* extract_pinterest_info(board_url): re.search(r"pinterest\.com/([^/]+)/([^/]+)").
extract_pinterest_info(board_url) ==
    CASE board_url = "https://pinterest.com/u/b" -> <<"u", "b">>
      [] board_url = "https://pinterest.com/u" -> <<"", "">>
      [] OTHER -> <<"", "">>

\* save_base64_image(base64_string, folder): a path, or None when decoding fails.
Saved(base64_string) == base64_string # NotBase64

\* The JSON bodies of the model; EmptyData is {} (or no JSON at all).
EmptyData == [empty |-> TRUE]

TooManyImages == [i \in 1..(MAX_IMAGES + 1) |-> "jacket"]

FashionFinderData ==
    {EmptyData} \cup
    [ pinterest_url : {"", "https://pinterest.com/u", "https://pinterest.com/u/b"},
      images : SeqsUpTo({"jacket", Corrupt, NotBase64}, MaxQueries) \cup {TooManyImages} ]

\* What the scraper meets at the board.
ScrapeOutcomes == {"board_error", "no_pins", "ok"}

ErrorResponse(status, message) == [status |-> status, body |-> [error |-> message]]

\* lines 69-137: validate, scrape, save the uploads, then call
\* find_similar_images on pictures/<username>/<board_name>, which exists
\* (target_dir = "lib") or not (target_dir = "missing").
FashionFinder(data, scrape, target_dir) ==
    /\ pc = "idle"
    /\ caller' = "fashion_finder"
    /\ UNCHANGED branch
    /\ LET Reply(r) == /\ response' = r
                       /\ pc' = "responded"
                       /\ UNCHANGED request
       IN IF data = EmptyData
          THEN Reply(ErrorResponse(400, "No data provided"))
          ELSE IF data.pinterest_url = ""
          THEN Reply(ErrorResponse(400, "Pinterest board URL is required"))
          ELSE IF Len(data.images) > MAX_IMAGES
          THEN Reply(ErrorResponse(400, "Maximum of 5 images allowed"))
          ELSE LET info == extract_pinterest_info(data.pinterest_url)
                   username == info[1]
                   board_name == info[2]
                   upload_paths == SelectSeq(data.images, Saved)
               IN IF username = "" \/ board_name = ""
                  THEN Reply(ErrorResponse(400, "Invalid Pinterest board URL format"))
                  ELSE IF scrape = "board_error"
                  THEN Reply(ErrorResponse(404, "Failed to access Pinterest board"))
                  ELSE IF scrape = "no_pins"
                  THEN Reply(ErrorResponse(404, "No pins found on the board"))
                  ELSE IF upload_paths = <<>>
                  THEN Reply([status |-> 200, body |-> [similar_images |-> <<>>]])
                  ELSE /\ request' = [images |-> data.images,
                                      library_directory |-> target_dir,
                                      username |-> username,
                                      board_name |-> board_name]
                       /\ pc' = "entry"
                       /\ UNCHANGED response
    /\ UNCHANGED << world, history, query_features, index, ranking, publication, ret >>

\* similarity_results.get(key, [])
Get(d, key) == IF key \in DOMAIN d THEN d[key] ELSE <<>>

\* lines 140-154: the combined response, or the 500 of the except clause.
FashionFinderRespond ==
    /\ pc = "done"
    /\ caller = "fashion_finder"
    /\ response' =
          IF "exception" \in DOMAIN ret
          THEN ErrorResponse(500, "Server error")
          ELSE [status |-> 200,
                body |-> [similarity_results |-> Get(ret, "results"),
                          best_overall_matches |-> Get(ret, "best_overall_matches"),
                          uploaded_matches |-> Get(ret, "uploaded_matches")]]
    /\ pc' = "responded"
    /\ UNCHANGED << world, caller, branch, history, request, query_features, index, ranking,
                    publication, ret >>

\* ------------------------------------------------------ /api/find-similar

\* data.get("library_directory", SCRAPED_FOLDER) of a body without the key.
Absent == "absent"

FindSimilarData ==
    {EmptyData} \cup
    [ images : SeqsUpTo({"jacket", Corrupt}, MaxQueries) \cup {TooManyImages},
      pinterest_url : {"", "https://pinterest.com/u", "https://pinterest.com/u/b"},
      use_supabase : BOOLEAN,
      username : {"", "u"},
      board_name : {"", "b"},
      library_directory : {Absent, "lib", "missing"} ]

\* Mutant of FindSimilar: the pinterest_url and use_supabase payloads name the
\* scraped folder as library_directory.
FindSimilarWithScrapedLibrary(data) ==
    /\ pc = "idle"
    /\ caller' = "find_similar"
    /\ LET Reply(r) == /\ response' = r
                       /\ pc' = "responded"
                       /\ UNCHANGED << request, branch >>
           Call(payload, b) == /\ request' = payload
                               /\ branch' = b
                               /\ pc' = "entry"
                               /\ UNCHANGED response
       IN IF data = EmptyData
          THEN Reply(ErrorResponse(400, "No data provided"))
          ELSE IF data.images = <<>>
          THEN Reply(ErrorResponse(400, "No images provided"))
          ELSE IF Len(data.images) > MAX_IMAGES
          THEN Reply(ErrorResponse(400, "Maximum of 5 images allowed"))
          ELSE IF data.pinterest_url # ""
          THEN LET info == extract_pinterest_info(data.pinterest_url)
                   username == info[1]
                   board_name == info[2]
               IN IF username = "" \/ board_name = ""
                  THEN Reply(ErrorResponse(400, "Invalid Pinterest board URL format"))
                  ELSE Call([images |-> data.images,
                             library_directory |-> SCRAPED_FOLDER,
                             username |-> username,
                             board_name |-> board_name], "pinterest_url")
          ELSE IF data.use_supabase /\ (data.username = "" \/ data.board_name = "")
          THEN Reply(ErrorResponse(400,
                        "Username and board name required for Supabase storage"))
          ELSE IF data.use_supabase
          THEN Call([images |-> data.images,
                     library_directory |-> SCRAPED_FOLDER,
                     username |-> data.username,
                     board_name |-> data.board_name], "use_supabase")
          ELSE Call([images |-> data.images,
                     library_directory |-> IF data.library_directory = Absent
                                           THEN SCRAPED_FOLDER
                                           ELSE data.library_directory,
                     username |-> "",
                     board_name |-> ""], "local_directory")
    /\ UNCHANGED << world, history, query_features, index, ranking, publication, ret >>

\* lines 203-252: validate the body and build similarity_payload on one of
\* three branches; a key the payload lacks reads as "" in find_similar_images
\* (lines 35-38).
FindSimilar(data) ==
    /\ pc = "idle"
    /\ caller' = "find_similar"
    /\ LET Reply(r) == /\ response' = r
                       /\ pc' = "responded"
                       /\ UNCHANGED << request, branch >>
           Call(payload, b) == /\ request' = payload
                               /\ branch' = b
                               /\ pc' = "entry"
                               /\ UNCHANGED response
       IN IF data = EmptyData
          THEN Reply(ErrorResponse(400, "No data provided"))
          ELSE IF data.images = <<>>
          THEN Reply(ErrorResponse(400, "No images provided"))
          ELSE IF Len(data.images) > MAX_IMAGES
          THEN Reply(ErrorResponse(400, "Maximum of 5 images allowed"))
          ELSE IF data.pinterest_url # ""
          THEN LET info == extract_pinterest_info(data.pinterest_url)
                   username == info[1]
                   board_name == info[2]
               IN IF username = "" \/ board_name = ""
                  THEN Reply(ErrorResponse(400, "Invalid Pinterest board URL format"))
                  ELSE Call([images |-> data.images,
                             library_directory |-> "",
                             username |-> username,
                             board_name |-> board_name], "pinterest_url")
          ELSE IF data.use_supabase /\ (data.username = "" \/ data.board_name = "")
          THEN Reply(ErrorResponse(400,
                        "Username and board name required for Supabase storage"))
          ELSE IF data.use_supabase
          THEN Call([images |-> data.images,
                     library_directory |-> "",
                     username |-> data.username,
                     board_name |-> data.board_name], "use_supabase")
          ELSE Call([images |-> data.images,
                     library_directory |-> IF data.library_directory = Absent
                                           THEN SCRAPED_FOLDER
                                           ELSE data.library_directory,
                     username |-> "",
                     board_name |-> ""], "local_directory")
    /\ UNCHANGED << world, history, query_features, index, ranking, publication, ret >>

\* lines 254-259: jsonify(similarity_results), or the 500 of the except clause.
FindSimilarRespond ==
    /\ pc = "done"
    /\ caller = "find_similar"
    /\ response' =
          IF "exception" \in DOMAIN ret
          THEN ErrorResponse(500, "Server error")
          ELSE [status |-> 200, body |-> ret]
    /\ pc' = "responded"
    /\ UNCHANGED << world, caller, branch, history, request, query_features, index, ranking,
                    publication, ret >>

\* ---------------------------------------------------------- a repeated call

\* The caller invokes find_similar_images again with the same request_data,
\* against the same library.
Rerun ==
    /\ pc = "done"
    /\ caller = "direct"
    /\ run = 1
    /\ run' = 2
    /\ prev_ret' = ret
    /\ UNCHANGED listdir_calls
    /\ ret' = Running
    /\ pc' = "entry"
    /\ UNCHANGED << world, api, request, query_features, index, ranking, publication >>

\* --------------------------------------------------------- specifications

Core ==
    \/ Entry
    \/ DecodeQuery
    \/ ListDir
    \/ IndexFile
    \/ CheckLibrary
    \/ ScoreQuery
    \/ Aggregate

Next ==
    \/ \E req \in Requests : Invoke(req)
    \/ Core
    \/ \E outcome \in UploadOutcomes : UploadMatch(outcome)

\* find_similar_images called directly.
Spec == Init /\ [][Next]_vars

NextApi ==
    \/ \E data \in FashionFinderData, scrape \in ScrapeOutcomes,
          target_dir \in {"lib", "missing"} : FashionFinder(data, scrape, target_dir)
    \/ Core
    \/ \E outcome \in UploadOutcomes : UploadMatch(outcome)
    \/ FashionFinderRespond
    \/ \E data \in FindSimilarData : FindSimilar(data)
    \/ FindSimilarRespond

\* find_similar_images called by the HTTP handlers.
SpecApi == Init /\ [][NextApi]_vars

\* The requests that ask for no publication.
RequestsNoPublication == {req \in Requests : req.username = "" /\ req.board_name = ""}

NextTwice ==
    \/ \E req \in RequestsNoPublication : Invoke(req)
    \/ Core
    \/ Rerun

\* find_similar_images called twice with the same request, without publication.
SpecTwice == Init /\ [][NextTwice]_vars

\* ------------------------------------------------------ properties: helpers

Min(a, b) == IF a < b THEN a ELSE b

\* The directory positions up to k that hold an image of an allowed extension
\* that opens.
ValidPositions(k) ==
    {p \in 1..k : Lower(library[p].ext) \in valid_extensions /\ Decodable(library[p].img)}

\* The first n positions of scores when ordered by score descending, equal
\* scores by ascending position.
DescendingFirstWins(scores, n) ==
    LET Before(j, i) == scores[j] > scores[i] \/ (scores[j] = scores[i] /\ j < i)
        Rank(i) == 1 + Cardinality({j \in 1..Len(scores) : Before(j, i)})
    IN [p \in 1..Min(n, Len(scores)) |-> CHOOSE i \in 1..Len(scores) : Rank(i) = p]

RECURSIVE SumOver(_, _)
SumOver(f, n) == IF n = 0 THEN 0 ELSE f[n] + SumOver(f, n - 1)

Failed == "error" \in DOMAIN ret \/ "exception" \in DOMAIN ret

Succeeded == "results" \in DOMAIN ret

\* ------------------------------------------------------------------ claims

\* C1: for every query, the matches returned for it are the first
\* min(5, |index|) library entries ordered by that query's similarity
\* descending, entries of equal similarity by ascending index position.
C1_PerQueryFirstEnumeratedWins ==
    \A r \in 1..Len(results) :
        LET similarities == Similarities(query_features[r], library_features)
            expected == DescendingFirstWins(similarities, TopK)
        IN results[r].matches =
              [m \in 1..Len(expected) |->
                  [path |-> library_paths[expected[m]],
                   similarity_score |-> similarities[expected[m]]]]

\* C2: best_overall_matches are the first min(3, |index|) library entries
\* ordered by average score descending, equal averages by ascending index
\* position.
C2_BestOverallFirstEnumeratedWins ==
    Succeeded =>
        LET expected == DescendingFirstWins(avg_similarity_scores, TopN)
        IN /\ Len(ret.best_overall_matches) = Len(expected)
           /\ \A m \in 1..Len(expected) :
                 ret.best_overall_matches[m].path = library_paths[expected[m]]

\* C3: once the averages are computed, every library entry's average times
\* the number of queries is the sum of its similarities to the queries, and a
\* best match reports the average of its entry.
C3_AverageIsMeanOfQueries ==
    pc \in {"upload", "done"} /\ avg_similarity_scores # <<>> =>
        /\ Len(avg_similarity_scores) = Len(library_features)
        /\ \A idx \in 1..Len(library_features) :
              avg_similarity_scores[idx] * Len(query_features) =
                 SumOver([r \in 1..Len(query_features) |->
                            cosine_similarity(query_features[r], library_features[idx])],
                         Len(query_features))
        /\ \A m \in 1..Len(best_overall_matches) :
              \E idx \in 1..Len(library_paths) :
                 /\ library_paths[idx] = best_overall_matches[m].path
                 /\ best_overall_matches[m].average_similarity_score =
                       avg_similarity_scores[idx]

\* Two different queries, and an entry whose average is neither of its scores.
C3_Witness ==
    /\ pc = "done"
    /\ Succeeded
    /\ Len(query_features) = 2
    /\ \E idx \in 1..Len(library_features) :
          /\ avg_similarity_scores[idx] #
                cosine_similarity(query_features[1], library_features[idx])
          /\ avg_similarity_scores[idx] #
                cosine_similarity(query_features[2], library_features[idx])

\* C4: a call without query images returns the error at the entry check: it
\* never moves past it, computes no average and returns no result structure.
C4_NoQueriesIsAnError ==
    caller = "direct" /\ request.images = <<>> =>
        /\ pc \in {"entry", "done"}
        /\ avg_similarity_scores = <<>>
        /\ pc = "done" => ret = [error |-> "Missing required inputs"]

\* No query images, a library holding valid images.
C4_Witness ==
    /\ pc = "done"
    /\ caller = "direct"
    /\ request.images = <<>>
    /\ request.library_directory = "lib"
    /\ ValidPositions(Len(library)) # {}
    /\ ret = [error |-> "Missing required inputs"]

\* C5: when no file of the library survives (wrong extension, or an image
\* that does not open), the call never succeeds, and once all queries are
\* decoded it ends with the empty-library error.
C5_EmptyLibraryIsAnError ==
    request.library_directory = "lib" /\ ValidPositions(Len(library)) = {} =>
        /\ ~Succeeded
        /\ pc = "done" /\ request.images # <<>> /\ (\A i \in 1..Len(request.images) :
                                                     Decodable(request.images[i]))
              => ret = [error |-> "No valid images found in library"]

\* A directory with a text file and a corrupt image only.
C5_Witness ==
    /\ pc = "done"
    /\ ret = [error |-> "No valid images found in library"]
    /\ \E p \in 1..Len(library) : library[p].ext = ".txt"
    /\ \E p \in 1..Len(library) : library[p].ext = ".jpg" /\ library[p].img = Corrupt

\* The errors find_similar_images can end with before it lists the library.
BeforeListing ==
    { [error |-> "Missing required inputs"],
      [error |-> "Failed to process input image"],
      [exception |-> "FileNotFoundError"] }

\* C6: a library file that fails extraction never stops the indexing loop:
\* the loop runs to the end of the listing, and at every point the index holds
\* exactly the allowed files that opened among those taken so far, once each,
\* in listing order, with library_features[i] extracted from the file at
\* library_paths[i].
C6_IndexKeepsSurvivorsInOrder ==
    caller = "direct" =>
        /\ pos \in 0..Len(library)
        /\ Len(library_features) = Len(library_paths)
        /\ {library_paths[i] : i \in 1..Len(library_paths)} = ValidPositions(pos)
        /\ \A i, j \in 1..Len(library_paths) : i < j => library_paths[i] < library_paths[j]
        /\ \A i \in 1..Len(library_paths) :
              library_features[i] = extract_features(library[library_paths[i]].img)
        /\ pc \in {"check", "score", "aggregate", "upload"} => pos = Len(library)
        /\ pc = "done" => pos = Len(library) \/ ret \in BeforeListing

\* Three allowed files, the middle one corrupt: the index holds the other two.
C6_Witness ==
    /\ pc = "check"
    /\ Len(library) = 3
    /\ \A p \in 1..3 : Lower(library[p].ext) \in valid_extensions
    /\ library[2].img = Corrupt
    /\ library_paths = <<1, 3>>

NoQueries == request.images = <<>>

BadLocation == request.library_directory \in {"", "missing"}

NoValidLibraryImage ==
    request.library_directory = "lib" /\ ValidPositions(Len(library)) = {}

SomeQueryUndecodable == \E i \in 1..Len(request.images) : ~Decodable(request.images[i])

\* The complete result structure: one record per query, and the best overall.
CompleteResult ==
    /\ DOMAIN ret \in { {"results", "best_overall_matches"},
                        {"results", "best_overall_matches", "uploaded_matches"} }
    /\ Len(ret.results) = Len(request.images)
    /\ Len(ret.best_overall_matches) = Min(TopN, Cardinality(ValidPositions(Len(library))))

\* C7 as claimed: the call fails as a whole only for no query images, a bad
\* library location or no valid library image, and returns a complete result
\* for every other input.
C7_FailsOnlyForTheThree ==
    pc = "done" /\ caller = "direct" =>
        /\ Failed <=> NoQueries \/ BadLocation \/ NoValidLibraryImage
        /\ ~Failed => CompleteResult

\* C7 amended: the call fails as a whole exactly for no query images, a query
\* image that cannot be decoded, a bad library location or no valid library
\* image, and returns a complete result for every other input.
C7_FailsOnlyForTheFour ==
    pc = "done" /\ caller = "direct" =>
        /\ Failed <=> NoQueries \/ SomeQueryUndecodable \/ BadLocation \/ NoValidLibraryImage
        /\ ~Failed => CompleteResult

\* A corrupt query image fails the call although the library has valid images.
C7_Witness ==
    /\ pc = "done"
    /\ caller = "direct"
    /\ ret = [error |-> "Failed to process input image"]
    /\ request.library_directory = "lib"
    /\ ValidPositions(Len(library)) # {}

\* C8: when find_similar_images returns an error to the /api/fashion-finder
\* handler, the handler answers with an error response.
C8_HandlerPropagatesErrors ==
    pc = "responded" /\ caller = "fashion_finder" /\ "error" \in DOMAIN ret =>
        /\ response.status >= 400
        /\ "error" \in DOMAIN response.body

\* The public references of the attempts that succeeded, in match order.
RECURSIVE PublishedUrls(_)
PublishedUrls(n) ==
    IF n = 0 THEN <<>>
    ELSE IF upload_log[n] = "ok"
         THEN Append(PublishedUrls(n - 1),
                     PublicUrl(request.username, request.board_name, n - 1))
         ELSE PublishedUrls(n - 1)

\* C9: in the upload loop a failed match only loses its own reference: the
\* loop goes on to every later match, the returned list holds the references
\* of the matches that succeeded, in match order, and the result still holds
\* every selected match.
C9_UploadFailureIsLocal ==
    pc \in {"upload", "done"} /\ request.username # "" /\ request.board_name # "" /\
    (pc = "done" => Succeeded) =>
        LET selected == BestOverallMatches(avg_similarity_scores, library_paths,
                                           library_features, query_features, argsort_ties,
                                           blas_rounding)
        IN /\ Len(upload_log) <= Len(best_overall_matches)
           /\ uploaded_urls = PublishedUrls(Len(upload_log))
           /\ Len(best_overall_matches) = Len(selected)
           /\ \A m \in 1..Len(selected) :
                 /\ [best_overall_matches[m] EXCEPT !.supabase_url = NoUrl] = selected[m]
                 /\ best_overall_matches[m].supabase_url =
                       IF m <= Len(upload_log) /\ upload_log[m] = "ok"
                       THEN PublicUrl(request.username, request.board_name, m - 1)
                       ELSE NoUrl
           /\ pc = "done" =>
                 /\ Len(upload_log) = Len(best_overall_matches)
                 /\ ret = [results |-> results,
                           best_overall_matches |-> best_overall_matches,
                           uploaded_matches |-> uploaded_urls]

\* Three matches; the first two uploads fail, the third succeeds.
C9_Witness ==
    /\ pc = "done"
    /\ upload_log = <<"raises", "no_path", "ok">>
    /\ ret.uploaded_matches = <<PublicUrl("u", "b", 2)>>
    /\ Len(ret.best_overall_matches) = 3

\* C10: a second call with the same request against the same library returns
\* what the first returned: the same match orders and the same scores.
C10_SecondRunReturnsTheSame ==
    run = 2 /\ pc = "done" => ret = prev_ret

\* Two queries, and two library entries with the same average, ranked twice.
C10_Witness ==
    /\ run = 2
    /\ pc = "done"
    /\ Succeeded
    /\ Len(ret.results) = 2
    /\ \E i, j \in 1..Len(avg_similarity_scores) :
          i # j /\ avg_similarity_scores[i] = avg_similarity_scores[j]
    /\ \E i, j \in 1..Len(avg_similarity_scores) :
          avg_similarity_scores[i] # avg_similarity_scores[j]

\* The library positions the aggregate ranking selected, best first.
SelectedIndices == TopIndices(avg_similarity_scores, TopN, argsort_ties)

\* C11: each best-overall match carries one individual score per query index,
\* the score for query i is the very number the per-query loop computed for
\* query i against that library entry, and the matches come in the order of
\* the aggregate ranking.
C11_IndividualScoresAreTheLoopScores ==
    Succeeded =>
        /\ Len(ret.best_overall_matches) = Len(SelectedIndices)
        /\ \A m \in 1..Len(ret.best_overall_matches) :
              LET best_match == ret.best_overall_matches[m]
                  best_idx == SelectedIndices[m]
              IN /\ best_match.path = library_paths[best_idx]
                 /\ DOMAIN best_match.individual_scores = 1..Len(request.images)
                 /\ \A i \in 1..Len(request.images) :
                       best_match.individual_scores[i] =
                          Similarities(query_features[i], library_features)[best_idx]

\* C12: a successful search with n query images returns n records, the record
\* at position i carries query_image_index i (0-based, in the order the images
\* were supplied) and matches computed from the i-th supplied image alone.
C12_OneRecordPerQueryInOrder ==
    Succeeded =>
        /\ Len(ret.results) = Len(request.images)
        /\ \A i \in 1..Len(request.images) :
              /\ ret.results[i].query_image_index = i - 1
              /\ ret.results[i].matches =
                    Matches(Similarities(extract_features(request.images[i]), library_features),
                            library_paths, argsort_ties)

\* Two different query images against two different library entries: the two
\* records differ.
C12_Witness ==
    /\ pc = "done"
    /\ Succeeded
    /\ request.images = <<"jacket", "bag">>
    /\ Len(library_paths) >= 2
    /\ Len(ret.results) = 2
    /\ ret.results[1].matches # ret.results[2].matches

\* The steps of find_similar_images that come after os.listdir.
AfterListing == {"index", "check", "score", "aggregate", "upload"}

\* C13: in one invocation every query image is decoded before the library is
\* listed and publication comes after the ranking; a query-decode failure
\* returns without the library having been listed; no upload is attempted in an
\* invocation that returns an error, nor in a successful one whose username or
\* board_name is empty.
C13_DecodeThenListThenPublish ==
    /\ listdir_calls > 0 \/ pc \in AfterListing =>
          /\ Len(query_features) = Len(request.images)
          /\ \A i \in 1..Len(request.images) : Decodable(request.images[i])
    /\ upload_log # <<>> =>
          /\ pc \in {"upload", "done"}
          /\ listdir_calls = 1
          /\ Len(results) = Len(request.images)
          /\ Len(upload_log) <= Len(best_overall_matches)
    /\ ret = [error |-> "Failed to process input image"] =>
          /\ listdir_calls = 0
          /\ pos = 0
          /\ library_paths = <<>>
    /\ Failed => upload_log = <<>>
    /\ Succeeded /\ (request.username = "" \/ request.board_name = "") =>
          /\ upload_log = <<>>
          /\ "uploaded_matches" \notin DOMAIN ret

\* The second of two query images cannot be decoded, against a library that
\* holds an image and a request that names a user and a board.
C13_Witness ==
    /\ pc = "done"
    /\ ret = [error |-> "Failed to process input image"]
    /\ request.images = <<"jacket", Corrupt>>
    /\ request.library_directory = "lib"
    /\ request.username = "u"
    /\ request.board_name = "b"
    /\ \E f \in 1..Len(library) : library[f].img = "jacket" /\ library[f].ext = ".jpg"
    /\ listdir_calls = 0

\* C14: a /api/find-similar request with one to five images and a well-formed
\* pinterest_url, or use_supabase with username and board_name, hands
\* find_similar_images a payload without library_directory; the search answers
\* "Missing required inputs" and produces no similarity result.  Only the
\* local-directory branch reaches the decoding, indexing and ranking steps.
C14_OnlyTheLocalBranchRanks ==
    caller = "find_similar" =>
        /\ branch \in {"pinterest_url", "use_supabase"} =>
              /\ request.images # <<>>
              /\ Len(request.images) <= MAX_IMAGES
              /\ request.username # ""
              /\ request.board_name # ""
              /\ request.library_directory = ""
              /\ pc \in {"entry", "done", "responded"}
              /\ listdir_calls = 0
              /\ results = <<>>
              /\ best_overall_matches = <<>>
              /\ pc # "entry" => ret = [error |-> "Missing required inputs"]
              /\ pc = "responded" =>
                    response = [status |-> 200,
                                body |-> [error |-> "Missing required inputs"]]
        /\ pc \in {"decode", "listdir"} \cup AfterListing \/ Succeeded =>
              branch = "local_directory"

\* A decodable image and a well-formed board URL, against a library holding
\* the same image: the answer is the error.
C14_Witness ==
    /\ pc = "responded"
    /\ caller = "find_similar"
    /\ branch = "pinterest_url"
    /\ request.images = <<"jacket">>
    /\ request.username = "u"
    /\ request.board_name = "b"
    /\ \E f \in 1..Len(library) : library[f].img = "jacket" /\ library[f].ext = ".jpg"
    /\ response.body = [error |-> "Missing required inputs"]

====
